---- MODULE Spec2Model ----
(***************************************************************************)
(* Model of nanokvm-updater.py: FirmwareUpdater.update() and main().       *)
(* The state is the part of the device the updater reads and writes (the   *)
(* staging directory, the install tree, the backup tree, the stale paths,  *)
(* the runtime directories, the service) together with                     *)
(* the position of update() in its pipeline and the exception in flight.   *)
(* Every outcome the environment can give a step (a command's exit status, *)
(* an HTTP response, a filesystem call failing) is chosen with \E.         *)
(***************************************************************************)
EXTENDS Naturals, FiniteSets, Sequences, TLC

VARIABLES
    pc,               \* position of the run inside update() / main()
    exc,              \* exception in flight ("none", or the step that raised it)
    svc,              \* state of the S95nanokvm service
    staging,          \* /root/nanokvm-cache
    install,          \* /kvmapp
    backup,           \* /root/old
    stale,            \* which of the stale paths outside /kvmapp exist
    etcKvm,           \* does /etc/kvm exist
    fw,               \* response the firmware fetch of this run received
    lib,              \* response the library fetch of this run received
    restartLaunched,  \* the detached restart command was spawned in this run
    killLaunched,     \* the detached killall command was spawned in this run
    finCleanup,       \* the cleanup_files() call of the finally block ran
    recFail,          \* some best-effort operation of the pipeline failed
    steps,            \* the pipeline steps this run has executed, in order
    fatal,            \* the pipeline step that raised ("none" if none did)
    staged,           \* the tree update_firmware() promoted (NoTree if it did not)
    install0, backup0, stale0, staging0,  \* the state when the run started
    run,              \* which run of the updater this is, counted from 1
    server,           \* what the CDN serves, when it serves the same to every run
    prevOk,           \* the run before this one left update() without exception
    restartProc,      \* progress of the detached "S95nanokvm restart" child
    killProc,         \* progress of the detached "killall NanoKVM-Server" child
    cpc,              \* positions of updaters running update() side by side
    cfatal,           \* the step of each such updater that raised
    clobbered         \* which of them lost the staging directory to the other

vars == <<pc, exc, svc, staging, install, backup, stale, etcKvm, fw, lib,
          restartLaunched, killLaunched, finCleanup, recFail, steps, fatal, staged,
          install0, backup0, stale0, staging0,
          run, server, prevOk, restartProc, killProc, cpc, cfatal, clobbered>>

\* The state of one run of one updater from main() to the end of update().
runvars == <<pc, exc, fw, lib, restartLaunched, killLaunched, finCleanup, recFail,
             steps, fatal, staged, install0, backup0, stale0, staging0>>

\* The state beyond a single run of a single updater.
ext == <<run, server, prevOk, restartProc, killProc, cpc, cfatal, clobbered>>

----------------------------------------------------------------------------
(* Directory trees.  A tree is described by what the updater looks at:     *)
(*   id         which firmware it is ("absent" when the path is missing)   *)
(*   version    the file <tree>/version exists                             *)
(*   dl_lib     kvm_system/dl_lib: "noparent" (kvm_system missing),        *)
(*              "missing" (kvm_system exists, dl_lib does not), "dir",     *)
(*              "file" (dl_lib is a regular file holding the library)      *)
(*   lib        dl_lib/libmaixcam_lib.so exists                            *)
(*   kvm_stream kvm_system/kvm_stream exists                               *)
(*   kvm        the kvm directory: "none", "tree" (came with the tree and  *)
(*              has the tree's mode), or the mode it was created with      *)
(*   mode       modes of the tree's entries: "orig" (as archived),         *)
(*              "mixed" (partly chmod-ed), "0755"                          *)

NoTree ==
    [id |-> "absent", version |-> FALSE, dl_lib |-> "noparent", lib |-> FALSE,
     kvm_stream |-> FALSE, kvm |-> "none", mode |-> "none"]

Exists(t) == t.id # "absent"

\* The trees a device can hold at /kvmapp before a run.
OldTrees ==
    { [id |-> "old", version |-> TRUE, dl_lib |-> "dir", lib |-> TRUE,
       kvm_stream |-> ks, kvm |-> "tree", mode |-> "0755"] : ks \in BOOLEAN }

\* The tree a device can hold at /root/old before a run.
StaleBackup ==
    [id |-> "stale", version |-> TRUE, dl_lib |-> "dir", lib |-> TRUE,
     kvm_stream |-> FALSE, kvm |-> "tree", mode |-> "0755"]

\* The trees a firmware archive can carry under its top-level directory.
ArchiveTrees ==
    { [id |-> "new", version |-> v, dl_lib |-> d, lib |-> FALSE,
       kvm_stream |-> ks, kvm |-> k, mode |-> "orig"] :
         v \in BOOLEAN, d \in {"noparent", "missing", "dir"},
         ks \in BOOLEAN, k \in {"none", "tree"} }

\* kvm_system/kvm_stream needs kvm_system.
WellFormed(t) == t.kvm_stream => t.dl_lib # "noparent"

\* Bodies of the firmware response: not a zip, a zip without latest/, a zip with it.
\* dotdot: the zip also holds an entry whose name has a ".." component.
BadZip == [zip |-> FALSE, top |-> "none", tree |-> NoTree, dotdot |-> FALSE]
NoLatestZip == [zip |-> TRUE, top |-> "other", tree |-> NoTree, dotdot |-> FALSE]
LatestZip(t) == [zip |-> TRUE, top |-> "latest", tree |-> t, dotdot |-> FALSE]
GoodTree ==
    [id |-> "new", version |-> TRUE, dl_lib |-> "dir", lib |-> FALSE,
     kvm_stream |-> FALSE, kvm |-> "tree", mode |-> "orig"]
DotDotZips == { [b EXCEPT !.dotdot = TRUE] : b \in {NoLatestZip, LatestZip(GoodTree)} }
Bodies ==
    {BadZip, NoLatestZip} \cup DotDotZips \cup
    { LatestZip(t) : t \in {a \in ArchiveTrees : WellFormed(a)} }

StatusCodes == {200, 304, 404}
ZipType == "application/zip"
OctetType == "application/octet-stream"
ContentTypes == {ZipType, OctetType, "text/html"}

NoResp == [kind |-> "none", status |-> 0, ctype |-> "none"]
NetErr == [kind |-> "neterr", status |-> 0, ctype |-> "none"]
Responses ==
    {NetErr} \cup
    { [kind |-> "http", status |-> s, ctype |-> c] : s \in StatusCodes, c \in ContentTypes }

\* The staging directory.
\* dotdot: it holds a file extracted from an entry named with "..".
NoStaging ==
    [exists |-> FALSE, zip |-> "none", latest |-> NoTree, libfile |-> FALSE, junk |-> FALSE,
     dotdot |-> FALSE]
EmptyStaging == [NoStaging EXCEPT !.exists = TRUE]
LeftoverStaging ==
    [exists |-> TRUE, zip |-> "full", latest |-> NoTree, libfile |-> TRUE, junk |-> TRUE,
     dotdot |-> FALSE]

\* The stale paths of cleanup_files(); the last one lies inside the install tree.
OutsidePaths == {"/tmp/kvm_system", "/tmp/server", "/etc/init.d/S02udisk", "/etc/init.d/S30wifi"}
KvmStream == "/kvmapp/kvm_system/kvm_stream"
PathsToClean == OutsidePaths \cup {KvmStream}

\* What running a command can give: exit status 0, a non-zero exit status,
\* or the command could not be spawned (run/Popen raises).
CmdOutcomes == {"ok", "nonzero", "spawnfail"}


\* What a shell command line ending in "|| true" can give: its command took
\* effect ("ok"), its command failed and "|| true" hid that ("masked", exit
\* status 0), or the shell could not be spawned.
ShellOutcomes == {"ok", "masked", "spawnfail"}

----------------------------------------------------------------------------
(* The methods of FirmwareUpdater, as functions of the state they read and *)
(* of what the environment answers.  Each gives the state it leaves and    *)
(* whether it raised.                                                      *)

\* service_control(action): "stop" runs in the foreground and raises on a
\* non-zero exit status; any other action is spawned detached and only a
\* failure to spawn raises.  launched: a child process was started.
service_control(action, rc) ==
    IF action = "stop"
    THEN [raised |-> rc # "ok", launched |-> rc # "spawnfail"]
    ELSE [raised |-> rc = "spawnfail", launched |-> rc # "spawnfail"]

\* safe_mkdir(path): mkdir(parents=True, exist_ok=True), every exception swallowed.
safe_mkdir(exists, ok) ==
    [exists |-> exists \/ ok, failed |-> ~ok, raised |-> FALSE]

\* safe_remove(path): unlink or rmtree(ignore_errors=True), every exception swallowed.
safe_remove(present, ok) ==
    [present |-> present /\ ~ok, failed |-> present /\ ~ok, raised |-> FALSE]

\* safe_execute without its try/except: a command that cannot be spawned raises.
safe_execute_raising(rc) ==
    [ok |-> rc \in {"ok", "masked"}, failed |-> rc # "ok", raised |-> rc = "spawnfail"]

\* safe_execute(cmd): run the command, return returncode == 0, every exception swallowed.
safe_execute(rc) ==
    [ok |-> rc \in {"ok", "masked"}, failed |-> rc # "ok", raised |-> FALSE]

\* mkdir() without the reset: a plain mkdir of the staging path, which raises
\* when the path exists.
mkdir_noreset(stg, rmOk, mkOk) ==
    IF stg.exists \/ ~mkOk THEN [staging |-> stg, raised |-> TRUE]
    ELSE [staging |-> EmptyStaging, raised |-> FALSE]

\* mkdir(): rmtree the staging directory if it exists, then create it.
mkdir(stg, rmOk, mkOk) ==
    IF stg.exists /\ ~rmOk THEN [staging |-> stg, raised |-> TRUE]
    ELSE IF ~mkOk THEN [staging |-> NoStaging, raised |-> TRUE]
    ELSE [staging |-> EmptyStaging, raised |-> FALSE]

\* read_file(path): read_text().strip(); logs and re-raises on any failure.
read_file(present, ok) == [raised |-> ~(present /\ ok)]

\* requests' Response.raise_for_status(): raises for 4xx and 5xx only.
raise_for_status(resp) == resp.status >= 400 /\ resp.status < 600

\* download_firmware(): GET, raise_for_status, content-type check, stream the
\* body to latest.zip, extract it into the staging directory.
\* io: "ok", "write_fail" (a chunk write fails), "extract_fail".
\* ZipFile.extractall() drops the ".." components of an entry's name and
\* writes the entry under the staging directory; it does not raise for it.
download_firmware(stg, resp, body, io) ==
    IF resp.kind = "neterr" \/ raise_for_status(resp) \/ resp.ctype # ZipType
    THEN [staging |-> stg, raised |-> TRUE]
    ELSE IF ~stg.exists THEN [staging |-> stg, raised |-> TRUE]
    ELSE IF io = "write_fail"
    THEN [staging |-> [stg EXCEPT !.zip = "partial"], raised |-> TRUE]
    ELSE IF ~body.zip
    THEN [staging |-> [stg EXCEPT !.zip = "full"], raised |-> TRUE]
    ELSE IF io = "extract_fail"
    THEN [staging |-> [stg EXCEPT !.zip = "full", !.junk = TRUE], raised |-> TRUE]
    ELSE IF body.top = "latest"
    THEN [staging |-> [stg EXCEPT !.zip = "full", !.latest = body.tree,
                                  !.dotdot = body.dotdot],
          raised |-> FALSE]
    ELSE [staging |-> [stg EXCEPT !.zip = "full", !.junk = TRUE, !.dotdot = body.dotdot],
          raised |-> FALSE]

\* shutil.copy(lib_file, lib_dir) into the staged tree: a missing parent
\* raises; a missing dl_lib with an existing parent makes dl_lib a regular
\* file holding the library; an existing dl_lib directory receives the file.
copy_lib(t, ok) ==
    IF ~Exists(t) \/ t.dl_lib = "noparent" \/ ~ok THEN [tree |-> t, raised |-> TRUE]
    ELSE IF t.dl_lib = "dir" THEN [tree |-> [t EXCEPT !.lib = TRUE], raised |-> FALSE]
    ELSE [tree |-> [t EXCEPT !.dl_lib = "file"], raised |-> FALSE]

\* download_lib(): read /device_key, GET, raise_for_status, content-type
\* check, write libmaixcam_lib.so into the staging directory, copy it into
\* latest/kvm_system/dl_lib.  io: "ok", "write_fail", "copy_fail".
download_lib(stg, keyOk, resp, io) ==
    IF read_file(TRUE, keyOk).raised THEN [staging |-> stg, raised |-> TRUE]
    ELSE IF resp.kind = "neterr" \/ raise_for_status(resp) \/ resp.ctype # OctetType
    THEN [staging |-> stg, raised |-> TRUE]
    ELSE IF ~stg.exists \/ io = "write_fail" THEN [staging |-> stg, raised |-> TRUE]
    ELSE LET c == copy_lib(stg.latest, io # "copy_fail")
         IN  [staging |-> [stg EXCEPT !.libfile = TRUE, !.latest = c.tree],
              raised |-> c.raised]

\* What is left at the destination of a shutil.move that failed midway
\* through its copy (the fallback it takes when os.rename fails).
PartialTree == [NoTree EXCEPT !.id = "partial"]

\* shutil.move(src, dst): "ok"; "fail", nothing moved; "partial", the rename
\* failed and the copy that replaces it broke off, the source still in place.
MoveOutcomes == {"ok", "fail", "partial"}

\* update_firmware deleting the install tree where it should move it aside.
update_firmware_nobackup(inst, bak, stg, rmOk, mv1, mv2) ==
    IF Exists(bak) /\ ~rmOk
    THEN [install |-> inst, backup |-> bak, staging |-> stg, raised |-> TRUE]
    ELSE IF Exists(inst) /\ mv1 # "ok"
    THEN [install |-> inst, backup |-> NoTree, staging |-> stg, raised |-> TRUE]
    ELSE IF ~stg.exists \/ ~Exists(stg.latest) \/ mv2 = "fail"
    THEN [install |-> NoTree, backup |-> NoTree, staging |-> stg, raised |-> TRUE]
    ELSE IF mv2 = "partial"
    THEN [install |-> PartialTree, backup |-> NoTree, staging |-> stg, raised |-> TRUE]
    ELSE [install |-> stg.latest, backup |-> NoTree,
          staging |-> [stg EXCEPT !.latest = NoTree], raised |-> FALSE]

\* update_firmware without the rmtree of the old backup: shutil.move into an
\* existing directory moves the install tree inside it, the old backup stays.
update_firmware_merge(inst, bak, stg, rmOk, mv1, mv2) ==
    LET kept == IF Exists(bak) THEN bak ELSE inst
    IN  IF Exists(inst) /\ mv1 # "ok"
        THEN [install |-> inst, backup |-> bak, staging |-> stg, raised |-> TRUE]
        ELSE IF ~stg.exists \/ ~Exists(stg.latest) \/ mv2 = "fail"
        THEN [install |-> NoTree, backup |-> kept, staging |-> stg, raised |-> TRUE]
        ELSE IF mv2 = "partial"
        THEN [install |-> PartialTree, backup |-> kept, staging |-> stg, raised |-> TRUE]
        ELSE [install |-> stg.latest, backup |-> kept,
              staging |-> [stg EXCEPT !.latest = NoTree], raised |-> FALSE]

\* update_firmware() with the second move guarded by an existence test of
\* staging/latest: nothing is raised when the staged tree is missing.
update_firmware_guarded(inst, bak, stg, rmOk, mv1, mv2) ==
    IF Exists(bak) /\ ~rmOk
    THEN [install |-> inst, backup |-> bak, staging |-> stg, raised |-> TRUE]
    ELSE IF Exists(inst) /\ mv1 # "ok"
    THEN [install |-> inst, backup |-> IF mv1 = "partial" THEN PartialTree ELSE NoTree,
          staging |-> stg, raised |-> TRUE]
    ELSE IF ~stg.exists \/ ~Exists(stg.latest)
    THEN [install |-> NoTree, backup |-> inst, staging |-> stg, raised |-> FALSE]
    ELSE IF mv2 = "fail"
    THEN [install |-> NoTree, backup |-> inst, staging |-> stg, raised |-> TRUE]
    ELSE IF mv2 = "partial"
    THEN [install |-> PartialTree, backup |-> inst, staging |-> stg, raised |-> TRUE]
    ELSE [install |-> stg.latest, backup |-> inst,
          staging |-> [stg EXCEPT !.latest = NoTree], raised |-> FALSE]

\* update_firmware(): rmtree the backup if it exists; move the install tree
\* to the backup path if it exists; move staging/latest to the install path.
update_firmware(inst, bak, stg, rmOk, mv1, mv2) ==
    IF Exists(bak) /\ ~rmOk
    THEN [install |-> inst, backup |-> bak, staging |-> stg, raised |-> TRUE]
    ELSE IF Exists(inst) /\ mv1 # "ok"
    THEN [install |-> inst, backup |-> IF mv1 = "partial" THEN PartialTree ELSE NoTree,
          staging |-> stg, raised |-> TRUE]
    ELSE IF ~stg.exists \/ ~Exists(stg.latest) \/ mv2 = "fail"
    THEN [install |-> NoTree, backup |-> inst, staging |-> stg, raised |-> TRUE]
    ELSE IF mv2 = "partial"
    THEN [install |-> PartialTree, backup |-> inst, staging |-> stg, raised |-> TRUE]
    ELSE [install |-> stg.latest, backup |-> inst,
          staging |-> [stg EXCEPT !.latest = NoTree], raised |-> FALSE]

\* set_permissions(): os.walk the install tree and chmod 0755 every directory
\* and file; os.walk of a missing directory visits nothing.
set_permissions(inst, ok) ==
    IF ~Exists(inst) THEN [install |-> inst, raised |-> FALSE]
    ELSE IF ~ok THEN [install |-> [inst EXCEPT !.mode = "mixed"], raised |-> TRUE]
    ELSE [install |-> [inst EXCEPT !.mode = "0755",
                                   !.kvm = IF @ \in {"none", "tree"} THEN @ ELSE "0755"],
          raised |-> FALSE]

\* A tree that holds nothing but what mkdir(parents=True) of <tree>/kvm made.
BareTree(m) == [NoTree EXCEPT !.id = "bare", !.kvm = m, !.mode = m]

\* setup_directories(): safe_mkdir(/kvmapp/kvm), safe_mkdir(/etc/kvm).  A
\* directory the call creates gets mode 0777 masked by the umask (um).
setup_directories(inst, etc, ok1, ok2, um) ==
    LET k == safe_mkdir(inst.kvm # "none", ok1)
        e == safe_mkdir(etc, ok2)
        made == inst.kvm = "none" /\ k.exists
    IN  [install |-> IF ~made THEN inst
                     ELSE IF Exists(inst) THEN [inst EXCEPT !.kvm = um]
                     ELSE BareTree(um),
         etcKvm |-> e.exists,
         failed |-> k.failed \/ e.failed,
         raised |-> k.raised \/ e.raised]

\* The stale paths that exist; only the removal of an existing path can fail.
PresentPaths(st, inst) == st \cup (IF inst.kvm_stream THEN {KvmStream} ELSE {})

\* cleanup_files(): safe_remove each of the five stale paths.  fails: the
\* paths whose removal fails.
cleanup_files(st, inst, fails) ==
    LET r(p) == safe_remove(IF p = KvmStream THEN inst.kvm_stream ELSE p \in st,
                            p \notin fails)
    IN  [stale |-> {p \in OutsidePaths : r(p).present},
         install |-> [inst EXCEPT !.kvm_stream = r(KvmStream).present],
         failed |-> \E p \in PathsToClean : r(p).failed,
         raised |-> \E p \in PathsToClean : r(p).raised]

\* handle_kernel_modules(): rmmod i2c_gpio, rmmod i2c_algo_bit, insmod
\* i2c-algo-bit, insmod i2c-gpio, each through safe_execute.
handle_kernel_modules(rcs) ==
    LET x(i) == safe_execute(rcs[i])
    IN  [failed |-> \E i \in 1..4 : x(i).failed,
         raised |-> \E i \in 1..4 : x(i).raised]

\* The finally block's "if self.temporary.exists(): shutil.rmtree(self.temporary)".
finally_rmtree(stg, ok) ==
    IF ~stg.exists THEN [staging |-> stg, raised |-> FALSE]
    ELSE IF ok THEN [staging |-> NoStaging, raised |-> FALSE]
    ELSE [staging |-> stg, raised |-> TRUE]

\* The finally block's Popen("killall NanoKVM-Server ... &"): only a failure
\* to spawn raises.
finally_kill(rc) == [raised |-> rc = "spawnfail", launched |-> rc # "spawnfail"]

\* main(): the exit code, 1 if update() raised (e is the exception that left
\* update()), 0 otherwise.
main(e) == IF e = "none" THEN 0 ELSE 1

----------------------------------------------------------------------------
(* The run: main() calls update(); update() executes its steps in order, a *)
(* raising step jumps to the finally block, the finally block executes its *)
(* three statements in order and a raising one leaves update() at once.    *)

\* How many of the stale paths outside /kvmapp exist before the run, at most.
MaxStale == 1

\* The stale paths outside /kvmapp in the order of paths_to_clean.
StalePathOrder ==
    <<"/tmp/kvm_system", "/tmp/server", "/etc/init.d/S02udisk", "/etc/init.d/S30wifi">>

InitialStale == { {StalePathOrder[i] : i \in 1..k} : k \in 0..MaxStale }

\* Updaters that can run update() side by side.
Updaters == {1, 2}

\* What the CDN serves: anything, a new answer to each request (AnyServer), or
\* the same accepted firmware archive and library to every run.
AnyServer == [fixed |-> FALSE, fw |-> NoResp, body |-> BadZip, lib |-> NoResp]
OkResp(c) == [kind |-> "http", status |-> 200, ctype |-> c]
SameServer(b) ==
    [fixed |-> TRUE, fw |-> OkResp(ZipType), body |-> b, lib |-> OkResp(OctetType)]
FixedServers ==
    { SameServer(LatestZip(t)) :
        t \in {GoodTree, [GoodTree EXCEPT !.kvm = "none", !.kvm_stream = TRUE]} }
FwResponses(srv) == IF srv.fixed THEN {srv.fw} ELSE Responses
FwBodies(srv) == IF srv.fixed THEN {srv.body} ELSE Bodies
LibResponses(srv) == IF srv.fixed THEN {srv.lib} ELSE Responses

\* The state when main() starts, on a device and against a server drawn from
\* the given sets; at is where the side-by-side updaters stand.
InitFrom(stagings, installs, backups, stales, servers, at) ==
    /\ pc = "idle"
    /\ exc = "none"
    /\ svc = "running"
    /\ staging \in stagings
    /\ install \in installs
    /\ backup \in backups
    /\ stale \in stales
    /\ etcKvm = FALSE
    /\ fw = NoResp
    /\ lib = NoResp
    /\ restartLaunched = FALSE
    /\ killLaunched = FALSE
    /\ finCleanup = FALSE
    /\ recFail = FALSE
    /\ steps = <<>>
    /\ fatal = "none"
    /\ staged = NoTree
    /\ install0 = install
    /\ backup0 = backup
    /\ stale0 = stale
    /\ staging0 = staging
    /\ run = 1
    /\ server \in servers
    /\ prevOk = FALSE
    /\ restartProc = "none"
    /\ killProc = "none"
    /\ cpc = [i \in Updaters |-> at]
    /\ cfatal = [i \in Updaters |-> "none"]
    /\ clobbered = [i \in Updaters |-> {}]

Init ==
    InitFrom({NoStaging, LeftoverStaging}, {NoTree} \cup OldTrees, {NoTree, StaleBackup},
             InitialStale, {AnyServer}, "off")

\* StepEnds without the short-circuit: the exception is noted but the pipeline
\* goes on with the next step.
StepEnds_fallthrough(step, raised, next) ==
    /\ steps' = Append(steps, step)
    /\ pc' = next
    /\ IF raised THEN exc' = step /\ fatal' = step
                 ELSE exc' = exc /\ fatal' = fatal

\* A pipeline step ends: it is recorded, and it either raised (the except
\* clause logs and re-raises, the finally block follows) or falls through.
StepEnds(step, raised, next) ==
    /\ steps' = Append(steps, step)
    /\ IF raised THEN pc' = "fin_rmtree" /\ exc' = step /\ fatal' = step
                 ELSE pc' = next /\ exc' = exc /\ fatal' = fatal

\* main() constructs the updater and calls update().
Main ==
    /\ pc = "idle"
    /\ pc' = "stop"
    /\ UNCHANGED <<exc, svc, staging, install, backup, stale, etcKvm, fw, lib,
                   restartLaunched, killLaunched, finCleanup, recFail, steps,
                   install0, backup0, stale0, staging0, ext, fatal, staged>>

\* self.service_control("stop")
ServiceStop ==
    /\ pc = "stop"
    /\ \E rc \in CmdOutcomes :
         LET r == service_control("stop", rc)
         IN  /\ svc' = IF rc = "ok" THEN "stopped" ELSE svc
             /\ StepEnds("stop", r.raised, "mkdir")
    /\ UNCHANGED <<staging, install, backup, stale, etcKvm, fw, lib,
                   restartLaunched, killLaunched, finCleanup, recFail,
                   install0, backup0, stale0, staging0, ext, staged>>

\* self.mkdir()
Mkdir ==
    /\ pc = "mkdir"
    /\ \E rmOk \in BOOLEAN, mkOk \in BOOLEAN :
         LET r == mkdir(staging, rmOk, mkOk)
         IN  /\ staging' = r.staging
             /\ StepEnds("mkdir", r.raised, "download_firmware")
    /\ UNCHANGED <<svc, install, backup, stale, etcKvm, fw, lib,
                   restartLaunched, killLaunched, finCleanup, recFail,
                   install0, backup0, stale0, staging0, ext, staged>>

\* self.download_firmware()
DownloadFirmware ==
    /\ pc = "download_firmware"
    /\ \E resp \in FwResponses(server), body \in FwBodies(server),
          io \in {"ok", "write_fail", "extract_fail"} :
         LET r == download_firmware(staging, resp, body, io)
         IN  /\ staging' = r.staging
             /\ fw' = resp
             /\ StepEnds("download_firmware", r.raised, "download_lib")
    /\ UNCHANGED <<svc, install, backup, stale, etcKvm, lib,
                   restartLaunched, killLaunched, finCleanup, recFail,
                   install0, backup0, stale0, staging0, ext, staged>>

\* self.download_lib()
DownloadLib ==
    /\ pc = "download_lib"
    /\ \E keyOk \in BOOLEAN, resp \in LibResponses(server),
          io \in {"ok", "write_fail", "copy_fail"} :
         LET r == download_lib(staging, keyOk, resp, io)
         IN  /\ staging' = r.staging
             /\ lib' = IF keyOk THEN resp ELSE NoResp
             /\ StepEnds("download_lib", r.raised, "update_firmware")
    /\ UNCHANGED <<svc, install, backup, stale, etcKvm, fw,
                   restartLaunched, killLaunched, finCleanup, recFail,
                   install0, backup0, stale0, staging0, ext, staged>>

\* self.update_firmware()
UpdateFirmware ==
    /\ pc = "update_firmware"
    /\ \E rmOk \in BOOLEAN, mv1 \in MoveOutcomes, mv2 \in MoveOutcomes :
         LET r == update_firmware(install, backup, staging, rmOk, mv1, mv2)
         IN  /\ install' = r.install
             /\ backup' = r.backup
             /\ staging' = r.staging
             /\ staged' = IF r.raised THEN NoTree ELSE staging.latest
             /\ StepEnds("update_firmware", r.raised, "set_permissions")
    /\ UNCHANGED <<svc, stale, etcKvm, fw, lib,
                   restartLaunched, killLaunched, finCleanup, recFail,
                   install0, backup0, stale0, staging0, ext>>

\* self.set_permissions()
SetPermissions ==
    /\ pc = "set_permissions"
    /\ \E ok \in BOOLEAN :
         LET r == set_permissions(install, ok)
         IN  /\ install' = r.install
             /\ StepEnds("set_permissions", r.raised, "setup_directories")
    /\ UNCHANGED <<svc, staging, backup, stale, etcKvm, fw, lib,
                   restartLaunched, killLaunched, finCleanup, recFail,
                   install0, backup0, stale0, staging0, ext, staged>>

\* self.setup_directories()
SetupDirectories ==
    /\ pc = "setup_directories"
    /\ \E ok1 \in BOOLEAN, ok2 \in BOOLEAN, um \in {"0755", "0700"} :
         LET r == setup_directories(install, etcKvm, ok1, ok2, um)
         IN  /\ install' = r.install
             /\ etcKvm' = r.etcKvm
             /\ recFail' = (recFail \/ r.failed)
             /\ StepEnds("setup_directories", r.raised, "cleanup_files")
    /\ UNCHANGED <<svc, staging, backup, stale, fw, lib,
                   restartLaunched, killLaunched, finCleanup,
                   install0, backup0, stale0, staging0, ext, staged>>

\* self.cleanup_files(), the call inside the try block
CleanupFiles ==
    /\ pc = "cleanup_files"
    /\ \E fails \in SUBSET PresentPaths(stale, install) :
         LET r == cleanup_files(stale, install, fails)
         IN  /\ stale' = r.stale
             /\ install' = r.install
             /\ recFail' = (recFail \/ r.failed)
             /\ StepEnds("cleanup_files", r.raised, "handle_kernel_modules")
    /\ UNCHANGED <<svc, staging, backup, etcKvm, fw, lib,
                   restartLaunched, killLaunched, finCleanup,
                   install0, backup0, stale0, staging0, ext, staged>>

\* self.handle_kernel_modules()
HandleKernelModules ==
    /\ pc = "handle_kernel_modules"
    /\ \E rcs \in [1..4 -> ShellOutcomes] :
         LET r == handle_kernel_modules(rcs)
         IN  /\ recFail' = (recFail \/ r.failed)
             /\ StepEnds("handle_kernel_modules", r.raised, "read_version")
    /\ UNCHANGED <<svc, staging, install, backup, stale, etcKvm, fw, lib,
                   restartLaunched, killLaunched, finCleanup,
                   install0, backup0, stale0, staging0, ext, staged>>

\* version = self.read_file(self.firmware_dir / "version")
ReadVersion ==
    /\ pc = "read_version"
    /\ \E ok \in BOOLEAN :
         LET r == read_file(install.version, ok)
         IN  StepEnds("read_version", r.raised, "restart")
    /\ UNCHANGED <<svc, staging, install, backup, stale, etcKvm, fw, lib,
                   restartLaunched, killLaunched, finCleanup, recFail,
                   install0, backup0, stale0, staging0, ext, staged>>

\* self.service_control("restart"), the last statement of the try block
ServiceRestart ==
    /\ pc = "restart"
    /\ \E rc \in CmdOutcomes :
         LET r == service_control("restart", rc)
         IN  /\ restartLaunched' = r.launched
             /\ StepEnds("restart", r.raised, "fin_rmtree")
    /\ UNCHANGED <<svc, staging, install, backup, stale, etcKvm, fw, lib,
                   killLaunched, finCleanup, recFail,
                   install0, backup0, stale0, staging0, ext, staged>>

\* finally: if self.temporary.exists(): shutil.rmtree(self.temporary)
FinallyRmtree ==
    /\ pc = "fin_rmtree"
    /\ \E ok \in BOOLEAN :
         LET r == finally_rmtree(staging, ok)
         IN  /\ staging' = r.staging
             /\ IF r.raised THEN pc' = "done" /\ exc' = "fin_rmtree"
                            ELSE pc' = "fin_kill" /\ exc' = exc
    /\ UNCHANGED <<svc, install, backup, stale, etcKvm, fw, lib,
                   restartLaunched, killLaunched, finCleanup, recFail, steps,
                   install0, backup0, stale0, staging0, ext, fatal, staged>>

\* finally: Popen("killall NanoKVM-Server >/dev/null 2>&1 || true &", ...)
FinallyKill ==
    /\ pc = "fin_kill"
    /\ \E rc \in CmdOutcomes :
         LET r == finally_kill(rc)
         IN  /\ killLaunched' = r.launched
             /\ IF r.raised THEN pc' = "done" /\ exc' = "fin_kill"
                            ELSE pc' = "fin_cleanup" /\ exc' = exc
    /\ UNCHANGED <<svc, staging, install, backup, stale, etcKvm, fw, lib,
                   restartLaunched, finCleanup, recFail, steps,
                   install0, backup0, stale0, staging0, ext, fatal, staged>>

\* finally: self.cleanup_files()
FinallyCleanup ==
    /\ pc = "fin_cleanup"
    /\ \E fails \in SUBSET PresentPaths(stale, install) :
         LET r == cleanup_files(stale, install, fails)
         IN  /\ stale' = r.stale
             /\ install' = r.install
             /\ finCleanup' = TRUE
             /\ pc' = "done"
             /\ exc' = IF r.raised THEN "fin_cleanup" ELSE exc
    /\ UNCHANGED <<svc, staging, backup, etcKvm, fw, lib,
                   restartLaunched, killLaunched, recFail, steps,
                   install0, backup0, stale0, staging0, ext, fatal, staged>>

Next ==
    \/ Main
    \/ ServiceStop
    \/ Mkdir
    \/ DownloadFirmware
    \/ DownloadLib
    \/ UpdateFirmware
    \/ SetPermissions
    \/ SetupDirectories
    \/ CleanupFiles
    \/ HandleKernelModules
    \/ ReadVersion
    \/ ServiceRestart
    \/ FinallyRmtree
    \/ FinallyKill
    \/ FinallyCleanup

Spec == Init /\ [][Next]_vars

----------------------------------------------------------------------------
(* Runs in a row.  The updater is started again (exit(main()) of an earlier *)
(* process, main() of the next) on the device as the earlier run left it,  *)
(* against a server that serves every run the same.                        *)

\* How many runs in a row.
MaxRuns == 2

\* exit(main()), and the next process starts main().
Rerun ==
    /\ pc = "done"
    /\ run < MaxRuns
    /\ pc' = "idle"
    /\ exc' = "none"
    /\ fw' = NoResp
    /\ lib' = NoResp
    /\ restartLaunched' = FALSE
    /\ killLaunched' = FALSE
    /\ finCleanup' = FALSE
    /\ recFail' = FALSE
    /\ steps' = <<>>
    /\ fatal' = "none"
    /\ staged' = NoTree
    /\ install0' = install
    /\ backup0' = backup
    /\ stale0' = stale
    /\ staging0' = staging
    /\ run' = run + 1
    /\ prevOk' = (exc = "none")
    /\ UNCHANGED <<svc, staging, install, backup, stale, etcKvm,
                   server, restartProc, killProc, cpc, cfatal, clobbered>>

InitRerun ==
    InitFrom({NoStaging, LeftoverStaging}, OldTrees, {NoTree, StaleBackup},
             {{}}, FixedServers, "off")

NextRerun == Next \/ Rerun

SpecRerun == InitRerun /\ [][NextRerun]_vars

----------------------------------------------------------------------------
(* The detached children.  service_control("restart") and the finally      *)
(* block each Popen a shell command line ending in "&" in a new session    *)
(* and wait for neither; the children run whenever the scheduler lets      *)
(* them, side by side with the rest of update() and with each other.       *)

\* "/etc/init.d/S95nanokvm restart": the script stops the server ...
RestartChildStop ==
    /\ restartLaunched
    /\ restartProc = "none"
    /\ restartProc' = "stopped"
    /\ svc' = "stopped"
    /\ UNCHANGED <<runvars, staging, install, backup, stale, etcKvm,
                   run, server, prevOk, killProc, cpc, cfatal, clobbered>>

\* ... and starts it.
RestartChildStart ==
    /\ restartProc = "stopped"
    /\ restartProc' = "done"
    /\ svc' = "running"
    /\ UNCHANGED <<runvars, staging, install, backup, stale, etcKvm,
                   run, server, prevOk, killProc, cpc, cfatal, clobbered>>

\* "killall NanoKVM-Server": every server process running at that moment is
\* terminated.
KillChild ==
    /\ killLaunched
    /\ killProc = "none"
    /\ killProc' = "done"
    /\ svc' = "stopped"
    /\ UNCHANGED <<runvars, staging, install, backup, stale, etcKvm,
                   run, server, prevOk, restartProc, cpc, cfatal, clobbered>>

InitDetached ==
    InitFrom({NoStaging, LeftoverStaging}, OldTrees, {NoTree}, {{}}, FixedServers, "off")

NextDetached == Next \/ RestartChildStop \/ RestartChildStart \/ KillChild

SpecDetached == InitDetached /\ [][NextDetached]_vars

----------------------------------------------------------------------------
(* Updaters side by side.  Two processes run update() at the same time on  *)
(* the same paths; the script takes no lock.  Each step is a method call   *)
(* of one updater; no call fails on its own (every command, request and    *)
(* filesystem call on an existing path succeeds) and the server serves a   *)
(* good archive, so a step raises only for what the other updater did.     *)

\* The variables a single updater's own run keeps.
solo == <<runvars, run, server, prevOk, restartProc, killProc>>

\* Updater j has reset the staging directory and has not promoted yet: it is
\* about to download into it, place the library in it or promote from it.
Using(j) == cpc[j] \in {"download_firmware", "download_lib", "update_firmware"}

\* Updater i takes the staging directory, or the staged tree, away by
\* way; the updaters using it at that moment are marked.
Clobber(i, way, took) ==
    clobbered' = [j \in Updaters |->
                    IF j # i /\ Using(j) /\ took THEN clobbered[j] \cup {way}
                    ELSE clobbered[j]]

CStepEnds(i, step, raised, next) ==
    /\ cpc' = [cpc EXCEPT ![i] = IF raised THEN "fin_rmtree" ELSE next]
    /\ cfatal' = [cfatal EXCEPT ![i] = IF raised THEN step ELSE @]

CStop(i) ==
    /\ cpc[i] = "stop"
    /\ svc' = "stopped"
    /\ CStepEnds(i, "stop", service_control("stop", "ok").raised, "mkdir")
    /\ UNCHANGED <<solo, staging, install, backup, stale, etcKvm, clobbered>>

CMkdir(i) ==
    /\ cpc[i] = "mkdir"
    /\ LET r == mkdir(staging, TRUE, TRUE)
       IN  /\ staging' = r.staging
           /\ Clobber(i, "reset", staging.exists)
           /\ CStepEnds(i, "mkdir", r.raised, "download_firmware")
    /\ UNCHANGED <<solo, svc, install, backup, stale, etcKvm>>

CDownloadFirmware(i) ==
    /\ cpc[i] = "download_firmware"
    /\ LET r == download_firmware(staging, OkResp(ZipType), LatestZip(GoodTree), "ok")
       IN  /\ staging' = r.staging
           /\ CStepEnds(i, "download_firmware", r.raised, "download_lib")
    /\ UNCHANGED <<solo, svc, install, backup, stale, etcKvm, clobbered>>

CDownloadLib(i) ==
    /\ cpc[i] = "download_lib"
    /\ LET r == download_lib(staging, TRUE, OkResp(OctetType), "ok")
       IN  /\ staging' = r.staging
           /\ CStepEnds(i, "download_lib", r.raised, "update_firmware")
    /\ UNCHANGED <<solo, svc, install, backup, stale, etcKvm, clobbered>>

CUpdateFirmware(i) ==
    /\ cpc[i] = "update_firmware"
    /\ LET r == update_firmware(install, backup, staging, TRUE, "ok", "ok")
       IN  /\ install' = r.install
           /\ backup' = r.backup
           /\ staging' = r.staging
           /\ Clobber(i, "promote", ~r.raised)
           /\ CStepEnds(i, "update_firmware", r.raised, "set_permissions")
    /\ UNCHANGED <<solo, svc, stale, etcKvm>>

CSetPermissions(i) ==
    /\ cpc[i] = "set_permissions"
    /\ LET r == set_permissions(install, TRUE)
       IN  /\ install' = r.install
           /\ CStepEnds(i, "set_permissions", r.raised, "setup_directories")
    /\ UNCHANGED <<solo, svc, staging, backup, stale, etcKvm, clobbered>>

CSetupDirectories(i) ==
    /\ cpc[i] = "setup_directories"
    /\ LET r == setup_directories(install, etcKvm, TRUE, TRUE, "0755")
       IN  /\ install' = r.install
           /\ etcKvm' = r.etcKvm
           /\ CStepEnds(i, "setup_directories", r.raised, "cleanup_files")
    /\ UNCHANGED <<solo, svc, staging, backup, stale, clobbered>>

CCleanupFiles(i) ==
    /\ cpc[i] = "cleanup_files"
    /\ LET r == cleanup_files(stale, install, {})
       IN  /\ stale' = r.stale
           /\ install' = r.install
           /\ CStepEnds(i, "cleanup_files", r.raised, "handle_kernel_modules")
    /\ UNCHANGED <<solo, svc, staging, backup, etcKvm, clobbered>>

CHandleKernelModules(i) ==
    /\ cpc[i] = "handle_kernel_modules"
    /\ CStepEnds(i, "handle_kernel_modules",
                 handle_kernel_modules([k \in 1..4 |-> "ok"]).raised, "read_version")
    /\ UNCHANGED <<solo, svc, staging, install, backup, stale, etcKvm, clobbered>>

CReadVersion(i) ==
    /\ cpc[i] = "read_version"
    /\ CStepEnds(i, "read_version", read_file(install.version, TRUE).raised, "restart")
    /\ UNCHANGED <<solo, svc, staging, install, backup, stale, etcKvm, clobbered>>

CRestart(i) ==
    /\ cpc[i] = "restart"
    /\ CStepEnds(i, "restart", service_control("restart", "ok").raised, "fin_rmtree")
    /\ UNCHANGED <<solo, svc, staging, install, backup, stale, etcKvm, clobbered>>

CFinallyRmtree(i) ==
    /\ cpc[i] = "fin_rmtree"
    /\ LET r == finally_rmtree(staging, TRUE)
       IN  /\ staging' = r.staging
           /\ Clobber(i, "finalization", staging.exists)
           /\ cpc' = [cpc EXCEPT ![i] = IF r.raised THEN "done" ELSE "fin_kill"]
    /\ UNCHANGED <<solo, svc, install, backup, stale, etcKvm, cfatal>>

CFinallyKill(i) ==
    /\ cpc[i] = "fin_kill"
    /\ cpc' = [cpc EXCEPT ![i] = IF finally_kill("ok").raised THEN "done" ELSE "fin_cleanup"]
    /\ UNCHANGED <<solo, svc, staging, install, backup, stale, etcKvm, cfatal, clobbered>>

CFinallyCleanup(i) ==
    /\ cpc[i] = "fin_cleanup"
    /\ LET r == cleanup_files(stale, install, {})
       IN  /\ stale' = r.stale
           /\ install' = r.install
           /\ cpc' = [cpc EXCEPT ![i] = "done"]
    /\ UNCHANGED <<solo, svc, staging, backup, etcKvm, cfatal, clobbered>>

InitConcurrent ==
    /\ InitFrom({NoStaging, LeftoverStaging}, OldTrees, {NoTree, StaleBackup},
                {{}}, FixedServers, "stop")
    /\ server.body.tree = GoodTree

NextConcurrent ==
    \E i \in Updaters :
        \/ CStop(i)
        \/ CMkdir(i)
        \/ CDownloadFirmware(i)
        \/ CDownloadLib(i)
        \/ CUpdateFirmware(i)
        \/ CSetPermissions(i)
        \/ CSetupDirectories(i)
        \/ CCleanupFiles(i)
        \/ CHandleKernelModules(i)
        \/ CReadVersion(i)
        \/ CRestart(i)
        \/ CFinallyRmtree(i)
        \/ CFinallyKill(i)
        \/ CFinallyCleanup(i)

SpecConcurrent == InitConcurrent /\ [][NextConcurrent]_vars

----------------------------------------------------------------------------
(* Vocabulary of the properties.                                           *)

\* update() has completed, its finally block included.
Completed == pc = "done"

\* The run has executed the pipeline step.
Has(step) == \E i \in 1..Len(steps) : steps[i] = step

\* The response has a success (2xx) status.
IsSuccess(resp) == resp.kind = "http" /\ resp.status >= 200 /\ resp.status < 300

\* The steps of update() whose failure is fatal by design.
FatalSteps ==
    {"stop", "mkdir", "download_firmware", "download_lib", "update_firmware",
     "set_permissions"}

\* The reconciliation steps of update().
ReconSteps == {"setup_directories", "cleanup_files", "handle_kernel_modules"}

\* The firmware fetch failed on the response itself: no response, a
\* non-success status, or a content-type other than application/zip.
FirmwareFetchRejected ==
    /\ fatal = "download_firmware"
    /\ (~IsSuccess(fw) \/ fw.ctype # ZipType)

----------------------------------------------------------------------------
\* C1  Fatal-before-mutation: when the firmware fetch of a run failed on its
\* status or content-type, the install tree and the backup tree are, once
\* update() has completed (finally block included), what they were before the
\* run started.
C1_FatalBeforeMutation ==
    (Completed /\ FirmwareFetchRejected) => (install = install0 /\ backup = backup0)

\* C2  When the service stop command fails, the run mutates nothing: once
\* update() has completed, the install tree, the backup tree and the stale
\* paths are what they were before the run started.
C2_NoMutationAfterStopFailure ==
    (Completed /\ fatal = "stop") =>
        (install = install0 /\ backup = backup0 /\ stale = stale0)

\* C3  Finalization restarts the service: when a fatal step of the pipeline
\* raised and the finally block has run through, a restart command has been
\* launched by the time update() has completed.
C3_RestartAfterFatal ==
    (Completed /\ fatal \in FatalSteps /\ finCleanup) => restartLaunched

\* C4  The staging directory does not exist once update() has completed,
\* whatever the outcome of the run and whether or not it existed before.
C4_StagingAbsentAtEnd ==
    Completed => ~staging.exists

\* C5  The finally block never raises and always runs to completion: once
\* update() has completed, the kill command was launched, the stale-file
\* cleanup was re-run, and the exception leaving update(), if any, is the
\* pipeline's and not one of the finally block.
C5_FinalizationCompletes ==
    Completed => (killLaunched /\ finCleanup /\ exc = fatal)

\* What a tree holds, leaving aside the modes and the kvm runtime directory.
Content(t) ==
    [id |-> t.id, version |-> t.version, dl_lib |-> t.dl_lib, lib |-> t.lib,
     kvm_stream |-> t.kvm_stream]

\* Which firmware a path holds, whole: the tree's content, leaving aside the
\* stale kvm_system/kvm_stream entry.
Firmware(t) == [Content(t) EXCEPT !.kvm_stream = FALSE]

\* inst is the staged tree st after the steps that follow promotion: modes
\* on their way to 0755, the kvm directory created if it was missing and its
\* creation did not fail, kvm_system/kvm_stream removed unless its removal
\* failed; everything else as staged.
Reconciled(st, inst) ==
    /\ Exists(st)
    /\ Firmware(inst) = Firmware(st)
    /\ inst.kvm_stream => st.kvm_stream
    /\ IF st.kvm = "none" THEN inst.kvm \in {"none", "0755", "0700"} ELSE inst.kvm = st.kvm
    /\ inst.mode \in {st.mode, "mixed", "0755"}

\* The pre-run install tree, or what the stale-file cleanup leaves of it.
PreRunTree(inst) == inst \in {install0, [install0 EXCEPT !.kvm_stream = FALSE]}

\* C6 as claimed  In every state outside the promote step the install path
\* holds the complete pre-run tree or the complete newly staged tree (for a
\* device that had an install tree before the run).
C6_InstallNeverAbsent ==
    Exists(install0) =>
        \/ Firmware(install) = Firmware(install0)
        \/ Exists(staged) /\ Firmware(install) = Firmware(staged)

\* C6 as amended  In every state outside the promote step the install path
\* holds the pre-run tree (less kvm_system/kvm_stream once a cleanup removed
\* it), or the newly staged tree as reconciled so far, or, after
\* update_firmware() raised, nothing or a partial copy while the backup path
\* holds the complete pre-run tree.
C6_InstallOldNewOrBackedUp ==
    \/ PreRunTree(install)
    \/ Reconciled(staged, install)
    \/ /\ fatal = "update_firmware"
       /\ install \in {NoTree, PartialTree}
       /\ backup = install0

\* C6 witness: the second move of update_firmware() failed in a run that
\* started with an install tree, and update() has completed.
C6_Witness ==
    /\ Completed
    /\ fatal = "update_firmware"
    /\ Exists(install0)
    /\ ~Exists(install)
    /\ backup = install0

\* A run that succeeded, started from an install tree and a stale backup.
RotatedRun == Completed /\ exc = "none" /\ Exists(install0) /\ Exists(backup0)

\* C7 as claimed  Backup rotation: after a successful run started from an
\* install tree I and a stale backup B, the backup path holds exactly I and
\* the install path holds the newly staged tree.
C7_BackupRotationExact ==
    RotatedRun => (backup = install0 /\ Content(install) = Content(staged))

\* C7 as amended  After a successful run started from an install tree I and a
\* stale backup B, the backup path holds exactly I (B is gone) and the install
\* path holds the newly staged tree as reconciled: modes 0755, the kvm
\* directory added unless its creation failed, kvm_system/kvm_stream removed
\* unless its removal failed.
C7_BackupRotation ==
    RotatedRun =>
        (backup = install0 /\ Reconciled(staged, install) /\ install.mode = "0755")

\* C7 witness: a successful rotation whose archive carried kvm_system/kvm_stream,
\* which the install tree no longer holds.
C7_Witness ==
    RotatedRun /\ staged.kvm_stream /\ ~install.kvm_stream /\ backup.id = "old"

\* C8  A failure to read the version file is not fatal: when read_file() of
\* <install>/version raised and the finally block ran through, the restart
\* was launched and main() returns 0.
C8_VersionReadNotFatal ==
    (Completed /\ fatal = "read_version" /\ finCleanup) =>
        (restartLaunched /\ main(exc) = 0)

\* C9  Best-effort isolation: no reconciliation step ever raises, and a run
\* that entered reconciliation goes through all three reconciliation steps to
\* the version read, and to the restart unless the version read raised; if
\* such a run fails, it is on the version read, the restart or the finally
\* block, whether or not a reconciliation operation failed.
C9_BestEffortIsolation ==
    /\ fatal \notin ReconSteps
    /\ exc \notin ReconSteps
    /\ (Completed /\ Has("setup_directories")) =>
          /\ Has("cleanup_files") /\ Has("handle_kernel_modules") /\ Has("read_version")
          /\ fatal \in {"none", "read_version", "restart"}
          /\ (fatal # "read_version" => Has("restart"))

\* C9 witness: a run in which a reconciliation operation failed and which
\* nevertheless succeeded, restart launched.
C9_Witness ==
    Completed /\ recFail /\ exc = "none" /\ restartLaunched

\* C10  An artifact is accepted only after validation: the archive is in the
\* staging directory only if the firmware response had a success status and
\* content-type application/zip, the library file only if the library
\* response had a success status and content-type application/octet-stream,
\* and update_firmware() is reached only if both hold.
ValidFirmware == IsSuccess(fw) /\ fw.ctype = ZipType
ValidLibrary == IsSuccess(lib) /\ lib.ctype = OctetType
C10_AcceptOnlyValidated ==
    /\ (Has("download_firmware") /\ staging.zip # "none") => ValidFirmware
    /\ (Has("download_lib") /\ staging.libfile) => ValidLibrary
    /\ Has("update_firmware") => (ValidFirmware /\ ValidLibrary)

----------------------------------------------------------------------------
\* C11  After a successful run every file and directory under the install
\* path has mode 0755, the kvm runtime directory the run creates after
\* set_permissions() included.
C11_AllModes0755 ==
    (Completed /\ exc = "none") =>
        (install.mode = "0755" /\ install.kvm \in {"none", "tree", "0755"})

\* The update succeeded overall: the new tree was promoted and normalized and
\* the restart was launched.
SucceededOverall ==
    /\ Exists(staged)
    /\ Has("set_permissions") /\ fatal # "set_permissions"
    /\ restartLaunched

\* C13  main() returns 0 exactly when the update succeeded overall, and 1
\* exactly when an exception left update().
C13_ExitCode ==
    Completed =>
        /\ (main(exc) = 0) <=> SucceededOverall
        /\ (main(exc) = 1) <=> (exc # "none")

\* The pipeline steps of update(), in the order of its try block.
PipelineOrder ==
    <<"stop", "mkdir", "download_firmware", "download_lib", "update_firmware",
      "set_permissions", "setup_directories", "cleanup_files",
      "handle_kernel_modules", "read_version", "restart">>
PipelineSteps == {PipelineOrder[i] : i \in 1..Len(PipelineOrder)}
FinalizationStages == {"fin_rmtree", "fin_kill", "fin_cleanup", "done"}
IsPrefix(s, t) == Len(s) <= Len(t) /\ \A i \in 1..Len(s) : s[i] = t[i]

\* C15  The steps of a run execute in the pipeline's order, each at most
\* once; the step about to execute is the one after the last executed, and
\* is reached only while no step has raised; after a step raised it is the
\* last step executed and only the finally block runs.
C15_PipelineOrder ==
    /\ IsPrefix(steps, PipelineOrder)
    /\ pc \in PipelineSteps =>
          (fatal = "none" /\ pc = PipelineOrder[Len(steps) + 1])
    /\ fatal # "none" =>
          /\ steps # <<>> /\ steps[Len(steps)] = fatal
          /\ pc \in FinalizationStages

\* C15 witness: a run cut short by the library download, completed without
\* promote or any later step.
C15_Witness ==
    /\ Completed /\ fatal = "download_lib"
    /\ steps = SubSeq(PipelineOrder, 1, 4)

\* C16  Placing the library fails unless latest/kvm_system/dl_lib exists as a
\* directory in the staged tree: update_firmware() is reached, and a tree is
\* promoted, only with the library inside a dl_lib directory.
C16_PlacementNeedsDirectory ==
    /\ (pc = "update_firmware") =>
          (staging.latest.dl_lib = "dir" /\ staging.latest.lib)
    /\ Exists(staged) => (staged.dl_lib = "dir" /\ staged.lib)

\* C14  An archive with an entry whose name has a ".." component fails the
\* run at the firmware download, before promote: no state has such an entry
\* extracted into the staging directory by a download that did not raise.
C14_TraversalRejected ==
    (Has("download_firmware") /\ staging.dotdot) =>
        (fatal = "download_firmware" /\ ~Has("update_firmware"))

----------------------------------------------------------------------------
(* Runs in a row (SpecRerun).                                              *)

\* The run is a successful one that follows a successful one.
SecondSuccess == run > 1 /\ prevOk /\ Completed /\ exc = "none"

CompleteTree(t) == t.id \in {"old", "stale", "new"}

\* C17  Firmware is never lost: over runs in a row on a device that held a
\* complete install tree, each run free to fail at any step, a complete
\* firmware tree exists at the install path or at the backup path.
C17_FirmwareNeverLost ==
    CompleteTree(install) \/ CompleteTree(backup)

----------------------------------------------------------------------------
(* The detached children (SpecDetached).                                   *)

\* C18  On a successful run the detached killall of the finally block does
\* not terminate the server the detached restart started: once both children
\* have finished, in whatever order they ran, the server is running.
C18_KillSparesRestartedServer ==
    (Completed /\ exc = "none" /\ restartProc = "done" /\ killProc = "done") =>
        svc = "running"

----------------------------------------------------------------------------
(* Updaters side by side (SpecConcurrent).                                 *)

\* The steps that read or write the staging directory after the reset.
StagingSteps == {"download_firmware", "download_lib", "update_firmware"}

\* C19  With two updaters side by side and no call failing on its own, an
\* updater whose staging directory the other's finally block deleted while
\* it was using it does not get past the step it was at: its download, its
\* library placement or its promote raises, and when it is the promote the
\* install path is left absent.
C19_LostStagingFailsTheOther ==
    \A i \in Updaters :
        ("finalization" \in clobbered[i]) =>
            \/ Using(i)
            \/ /\ cfatal[i] \in StagingSteps
               /\ cfatal[i] = "update_firmware" => ~Exists(install)

\* C19 witness: both updaters have finished; one had its own staged tree
\* intact until the other's finally block deleted the staging directory, its
\* promote raised, and the install path is absent.
C19_Witness ==
    \E i \in Updaters :
        /\ \A j \in Updaters : cpc[j] = "done"
        /\ clobbered[i] = {"finalization"}
        /\ cfatal[i] = "update_firmware"
        /\ \A j \in Updaters \ {i} : cfatal[j] = "none"
        /\ ~Exists(install)

====
